---------------------------- MODULE Spec2Model ----------------------------
(***************************************************************************)
(* Model of src/app.py: the dividend-adjustment arithmetic                 *)
(* (calculate_adjusted_prices, calculate_annual_dividend_yield), the       *)
(* per-symbol orchestration (fetch_and_process_data) and the tab-2 input   *)
(* form with its Analyze handler.                                          *)
(*                                                                         *)
(* Numbers.  The program computes on IEEE doubles held in pandas columns.  *)
(* A number is modelled as a pair <<n, d>>: the exact rational n/d in      *)
(* lowest terms when d > 0, +inf as <<1, 0>> and NaN as <<0, 0>>.          *)
(* Division by zero yields inf or NaN as numpy float64 division does (it   *)
(* warns, it does not raise).  Rounding is not modelled.  Closing prices   *)
(* and dividend amounts are finite and >= 0, so -inf never arises.         *)
(***************************************************************************)
EXTENDS Integers, Sequences, FiniteSets, TLC

VARIABLES
    \* ---- tab-2 widgets (src/app.py:88-112)
    num_stocks,       \* slider value
    ticker_inputs,    \* raw text of the num_stocks rendered text inputs
    include_indices,  \* checkbox
    selected_index,   \* selectbox value (its default while not rendered)
    analyze_button,   \* TRUE only in the script run the click triggered
    \* ---- script run (src/app.py:90-121)
    tickers,          \* fetch keys built by the form
    index_names,      \* display names built by the form
    pc,               \* position of the script run
    i,                \* loop position inside fetch_and_process_data (0-based)
    stock_data,       \* display name -> adjusted data frame
    annual_yields,    \* display name -> annual yield series
    messages,         \* what st.warning / st.error have shown in this run
    fetchLog,         \* the data source's calls in this run: key asked, answer
    \* ---- one application of the two calculators (src/app.py:57-58)
    data,             \* the price frame passed to the calculators
    dividends,        \* the dividend series passed to the calculators
    annual_yield,     \* result of calculate_annual_dividend_yield
    pcCalc            \* "start" | "adjusted" | "done"

vars == << num_stocks, ticker_inputs, include_indices, selected_index,
           analyze_button, tickers, index_names, pc, i, stock_data,
           annual_yields, messages, fetchLog,
           data, dividends, annual_yield, pcCalc >>

appVars == << num_stocks, ticker_inputs, include_indices, selected_index,
              analyze_button, tickers, index_names, pc, i, stock_data,
              annual_yields, messages, fetchLog >>

calcVars == << data, dividends, annual_yield, pcCalc >>

----------------------------------------------------------------------------
(* Bounds of the model *)

NumDates == 3
DaysPerYear == 2
MaxPrice == 2
MaxDividend == 1

----------------------------------------------------------------------------
(* float64 arithmetic on <<n, d>> *)

RECURSIVE GCD(_, _)
GCD(a, b) == IF b = 0 THEN a ELSE GCD(b, a % b)

NaN == << 0, 0 >>
Inf == << 1, 0 >>
Zero == << 0, 1 >>
One == << 1, 1 >>

Num(k) == << k, 1 >>

IsNaN(x) == x = NaN
IsInf(x) == x = Inf
IsFinite(x) == x[2] > 0

Reduce(n, d) ==
    IF d = 0 THEN (IF n > 0 THEN Inf ELSE NaN)
    ELSE LET g == GCD(n, d) IN << n \div g, d \div g >>

FAdd(x, y) ==
    IF IsNaN(x) \/ IsNaN(y) THEN NaN
    ELSE IF IsInf(x) \/ IsInf(y) THEN Inf
    ELSE Reduce(x[1] * y[2] + y[1] * x[2], x[2] * y[2])

FMul(x, y) ==
    IF IsNaN(x) \/ IsNaN(y) THEN NaN
    ELSE IF IsInf(x) \/ IsInf(y)
         THEN (IF x = Zero \/ y = Zero THEN NaN ELSE Inf)
    ELSE Reduce(x[1] * y[1], x[2] * y[2])

FDiv(x, y) ==
    IF IsNaN(x) \/ IsNaN(y) THEN NaN
    ELSE IF IsInf(x) THEN (IF IsInf(y) THEN NaN ELSE Inf)
    ELSE IF IsInf(y) THEN Zero
    ELSE Reduce(x[1] * y[2], x[2] * y[1])

\* x > 0 as float comparison: False for NaN
FGt0(x) == x[1] > 0

\* x <= y as float comparison: False when either is NaN
FLeq(x, y) ==
    /\ ~IsNaN(x)
    /\ ~IsNaN(y)
    /\ \/ IsInf(y)
       \/ IsFinite(x) /\ IsFinite(y) /\ x[1] * y[2] <= y[1] * x[2]

----------------------------------------------------------------------------
(* Dates: trading-calendar days 1..NumDates, DaysPerYear of them a year *)

Dates == 1 .. NumDates
Year(date) == 2020 + ((date - 1) \div DaysPerYear)

Min(S) == CHOOSE x \in S : \A y \in S : x <= y

\* the strictly increasing sequence of the elements of S
RECURSIVE Sorted(_)
Sorted(S) == IF S = {} THEN << >> ELSE << Min(S) >> \o Sorted(S \ {Min(S)})

Range(s) == { s[k] : k \in DOMAIN s }

----------------------------------------------------------------------------
(* calculate_adjusted_prices (src/app.py:15-36).  A frame is a record of   *)
(* columns, each a sequence parallel to the frame's index.                 *)

\* position of date in a series index, 0 when absent
Pos(index, date) ==
    IF \E k \in DOMAIN index : index[k] = date
    THEN CHOOSE k \in DOMAIN index : index[k] = date
    ELSE 0

\* a reindex that pairs values by position and ignores the dates
ReindexByPosition(series, new_index) ==
    [ index |-> new_index,
      values |-> [ k \in DOMAIN new_index |->
                     IF k > Len(series.values) THEN NaN ELSE series.values[k] ] ]

\* Series.reindex(new_index): the value at each date of new_index, NaN for
\* a date the series does not have; dates outside new_index are dropped
Reindex(series, new_index) ==
    [ index |-> new_index,
      values |-> [ k \in DOMAIN new_index |->
                     IF Pos(series.index, new_index[k]) = 0 THEN NaN
                     ELSE series.values[Pos(series.index, new_index[k])] ] ]

\* Series.fillna(v)
FillNa(series, v) ==
    [ series EXCEPT !.values = [ k \in DOMAIN series.values |->
                     IF IsNaN(series.values[k]) THEN v ELSE series.values[k] ] ]

\* line 16: dividends.reindex(data.index).fillna(0)
AlignDividends(divs, index) == FillNa(Reindex(divs, index), Zero)

\* Series.cumsum()
RECURSIVE CumSum(_)
CumSum(col) ==
    IF Len(col) = 0 THEN << >>
    ELSE LET front == CumSum(SubSeq(col, 1, Len(col) - 1))
         IN  Append(front, IF Len(col) = 1 THEN col[1]
                            ELSE FAdd(front[Len(col) - 1], col[Len(col)]))

\* the iteration without the "if current_dividend > 0" guard of line 28
SharesStepNoGuard(previous_shares, dividend, current_price) ==
    FAdd(previous_shares, FDiv(FMul(dividend, previous_shares), current_price))

\* the iteration storing the bought shares in place of the new total
SharesStepOverwrite(previous_shares, dividend, current_price) ==
    LET current_dividend == FMul(dividend, previous_shares)
    IN  IF FGt0(current_dividend) THEN FDiv(current_dividend, current_price)
        ELSE previous_shares

\* lines 25-29: one iteration of the reinvestment loop
SharesStep(previous_shares, dividend, current_price) ==
    LET current_dividend == FMul(dividend, previous_shares)
        additional_shares == IF FGt0(current_dividend)
                             THEN FDiv(current_dividend, current_price)
                             ELSE Zero
    IN  FAdd(previous_shares, additional_shares)

\* lines 23-29: 'Shares Held' set to 1.0, then rows 1 .. len-1 in order
\* (k is the 1-based row about to be written)
RECURSIVE ReinvestLoop(_, _, _, _)
ReinvestLoop(shares, divCol, closeCol, k) ==
    IF k > Len(closeCol) THEN shares
    ELSE ReinvestLoop(
           [ shares EXCEPT ![k] = SharesStep(shares[k - 1], divCol[k], closeCol[k]) ],
           divCol, closeCol, k + 1)

SharesHeld(divCol, closeCol) ==
    ReinvestLoop([ k \in DOMAIN closeCol |-> One ], divCol, closeCol, 2)

\* a normalization by the last row, data[col].iloc[-1]
NormalizeByLast(col) == [ k \in DOMAIN col |-> FDiv(col[k], col[Len(col)]) ]

\* lines 33-34: data[col] / data[col].iloc[0]
Normalize(col) == [ k \in DOMAIN col |-> FDiv(col[k], col[1]) ]

PointwiseAdd(a, b) == [ k \in DOMAIN a |-> FAdd(a[k], b[k]) ]
PointwiseMul(a, b) == [ k \in DOMAIN a |-> FMul(a[k], b[k]) ]

calculate_adjusted_prices(frame, divs) ==
    LET aligned == AlignDividends(divs, frame.index)
        cum == CumSum(aligned.values)
        paid == PointwiseAdd(frame.Close, cum)
        shares == SharesHeld(aligned.values, frame.Close)
        reinvested == PointwiseMul(shares, frame.Close)
    IN  [ symbol |-> frame.symbol,
          index |-> frame.index,
          Close |-> frame.Close,
          RegularPrice |-> frame.Close,
          Dividends |-> aligned.values,
          CumulativeDividends |-> cum,
          DividendsPaid |-> paid,
          SharesHeld |-> shares,
          DividendsReinvested |-> reinvested,
          NormalizedRegularPrice |-> Normalize(frame.Close),
          NormalizedDividendsPaid |-> Normalize(paid),
          NormalizedDividendsReinvested |-> Normalize(reinvested) ]

----------------------------------------------------------------------------
(* calculate_annual_dividend_yield (src/app.py:38-43) *)

RECURSIVE SumSeq(_)
SumSeq(col) ==
    IF Len(col) = 0 THEN Zero
    ELSE FAdd(SumSeq(SubSeq(col, 1, Len(col) - 1)), col[Len(col)])

\* the values of a series whose date falls in year y, in order
RECURSIVE InYear(_, _, _)
InYear(index, values, y) ==
    IF Len(index) = 0 THEN << >>
    ELSE LET rest == InYear(Tail(index), Tail(values), y)
         IN  IF Year(index[1]) = y THEN << values[1] >> \o rest ELSE rest

Years(index) == { Year(index[k]) : k \in DOMAIN index }

\* series.groupby(year).sum(): one entry per year that has a row
GroupSum(index, values) ==
    [ y \in Years(index) |-> SumSeq(InYear(index, values, y)) ]

\* series.groupby(year).mean()
GroupMean(index, values) ==
    [ y \in Years(index) |->
        FDiv(SumSeq(InYear(index, values, y)), Num(Len(InYear(index, values, y)))) ]

\* a / b on two series: aligned on the union of their indexes, NaN where
\* either side has no entry
SeriesDiv(a, b) ==
    [ y \in (DOMAIN a) \cup (DOMAIN b) |->
        IF y \in DOMAIN a /\ y \in DOMAIN b THEN FDiv(a[y], b[y]) ELSE NaN ]

calculate_annual_dividend_yield(frame, divs) ==
    LET annual_dividends == GroupSum(divs.index, divs.values)
        annual_avg_price == GroupMean(frame.index, frame.Close)
        ratio == SeriesDiv(annual_dividends, annual_avg_price)
    IN  [ y \in DOMAIN ratio |-> FMul(ratio[y], Num(100)) ]

\* line 39: data['Year'] = data.index.year
WithYear(frame) ==
    frame @@ [ Year |-> [ k \in DOMAIN frame.index |-> Year(frame.index[k]) ] ]

----------------------------------------------------------------------------
(* The inputs of one calculator run: a non-empty price history (the        *)
(* caller filters empty ones, line 53) and a dividend series, both with    *)
(* strictly increasing dates, closes in 0..MaxPrice, amounts in            *)
(* 0..MaxDividend.                                                         *)

SeriesOver(S, vals) ==
    { [ index |-> Sorted(S),
        values |-> [ k \in 1 .. Cardinality(S) |-> Num(f[Sorted(S)[k]]) ] ] :
      f \in [ S -> vals ] }

PriceFrame(sym, series) ==
    [ symbol |-> sym, index |-> series.index, Close |-> series.values ]

NoYield == << >>

InitCalcVars ==
    /\ \E S \in (SUBSET Dates) \ { {} } :
         \E series \in SeriesOver(S, 0 .. MaxPrice) :
            data = PriceFrame("X", series)
    /\ \E S \in SUBSET Dates : dividends \in SeriesOver(S, 0 .. MaxDividend)
    /\ annual_yield = NoYield
    /\ pcCalc = "start"

\* line 57: data = calculate_adjusted_prices(data, dividends)
CalcAdjusted ==
    /\ pcCalc = "start"
    /\ data' = calculate_adjusted_prices(data, dividends)
    /\ pcCalc' = "adjusted"
    /\ UNCHANGED << dividends, annual_yield >>

\* line 58: annual_yield = calculate_annual_dividend_yield(data, dividends)
CalcYield ==
    /\ pcCalc = "adjusted"
    /\ annual_yield' = calculate_annual_dividend_yield(data, dividends)
    /\ data' = WithYear(data)
    /\ pcCalc' = "done"
    /\ UNCHANGED dividends

CalcNext ==
    \/ CalcAdjusted /\ UNCHANGED appVars
    \/ CalcYield /\ UNCHANGED appVars

----------------------------------------------------------------------------
(* The tab-2 input form (src/app.py:88-112) *)

MinStocks == 1
MaxStocks == 5
DefaultStocks == 2

\* what a user may type into a ticker box; "" is a box left blank
TickerTexts == { "", "aapl", "^gspc" }

\* str.upper()
Upper(text) ==
    CASE text = "aapl" -> "AAPL"
      [] text = "^gspc" -> "^GSPC"
      [] OTHER -> text

\* lines 100-106, in the order of the dict's keys
IndexNames == << "S&P 500", "Dow Jones", "Nasdaq 100", "Russell 2000", "FTSE 100" >>

index_options ==
    [ name \in Range(IndexNames) |->
        CASE name = "S&P 500" -> "^GSPC"
          [] name = "Dow Jones" -> "^DJI"
          [] name = "Nasdaq 100" -> "^NDX"
          [] name = "Russell 2000" -> "^RUT"
          [] name = "FTSE 100" -> "^FTSE" ]

\* lines 90-96: the loop over the rendered ticker boxes; a blank box adds
\* nothing to either list
RECURSIVE StockSymbols(_)
StockSymbols(inputs) ==
    IF Len(inputs) = 0 THEN [ tickers |-> << >>, index_names |-> << >> ]
    ELSE LET front == StockSymbols(SubSeq(inputs, 1, Len(inputs) - 1))
             ticker == Upper(inputs[Len(inputs)])
         IN  IF ticker # ""
             THEN [ tickers |-> Append(front.tickers, ticker),
                    index_names |-> Append(front.index_names, ticker) ]
             ELSE front

\* lines 90-109: the two lists the form builds
FormSymbols(inputs, include, selected) ==
    LET stocks == StockSymbols(inputs)
    IN  IF include
        THEN [ tickers |-> Append(stocks.tickers, index_options[selected]),
               index_names |-> Append(stocks.index_names, selected) ]
        ELSE stocks

ErrorMessage == [ kind |-> "error", text |-> "Please enter at least one stock ticker or index." ]
Warning(ticker) == [ kind |-> "warning", text |-> "No data available", ticker |-> ticker ]

\* the main column without the "if not tickers" check of line 117
MainAreaNoCheck(clicked, tks) ==
    /\ pc' = IF clicked THEN "fetching" ELSE "idle"
    /\ messages' = << >>

\* lines 116-121: what the main column does with the lists in this run
MainArea(clicked, tks) ==
    IF ~clicked
    THEN pc' = "idle" /\ messages' = << >>
    ELSE IF tks = << >>
         THEN pc' = "user_error" /\ messages' = << ErrorMessage >>
         ELSE pc' = "fetching" /\ messages' = << >>

\* One run of the script from the top with the given widget values: every
\* widget interaction reruns it, and st.button is True only in the run its
\* click triggered.  Locals of the previous run are gone.
Rerun(n, inputs, include, selected, clicked) ==
    /\ num_stocks' = n
    /\ ticker_inputs' = inputs
    /\ include_indices' = include
    /\ selected_index' = selected
    /\ analyze_button' = clicked
    /\ tickers' = FormSymbols(inputs, include, selected).tickers
    /\ index_names' = FormSymbols(inputs, include, selected).index_names
    /\ i' = 0
    /\ stock_data' = << >>
    /\ annual_yields' = << >>
    /\ fetchLog' = << >>
    /\ MainArea(clicked, FormSymbols(inputs, include, selected).tickers)

ScriptIdle == pc \in { "idle", "user_error", "rendered", "exception" }

\* line 88: the slider; boxes beyond the new value are no longer rendered
\* and new boxes start at their default ""
SetNumStocks(n) ==
    /\ ScriptIdle
    /\ n # num_stocks
    /\ Rerun(n, [ k \in 1 .. n |-> IF k <= num_stocks THEN ticker_inputs[k] ELSE "" ],
             include_indices, selected_index, FALSE)

\* line 93: typing into ticker box k
EnterTicker(k, text) ==
    /\ ScriptIdle
    /\ k \in 1 .. num_stocks
    /\ text # ticker_inputs[k]
    /\ Rerun(num_stocks, [ ticker_inputs EXCEPT ![k] = text ],
             include_indices, selected_index, FALSE)

\* line 98: the checkbox; the selectbox is rendered only while it is checked
\* and shows its first option when it appears
ToggleIncludeIndices ==
    /\ ScriptIdle
    /\ Rerun(num_stocks, ticker_inputs, ~include_indices, IndexNames[1], FALSE)

\* line 107: the selectbox
SelectIndex(name) ==
    /\ ScriptIdle
    /\ include_indices
    /\ name # selected_index
    /\ Rerun(num_stocks, ticker_inputs, include_indices, name, FALSE)

\* line 112: the Analyze button
ClickAnalyze ==
    /\ ScriptIdle
    /\ Rerun(num_stocks, ticker_inputs, include_indices, selected_index, TRUE)

----------------------------------------------------------------------------
(* fetch_and_process_data (src/app.py:45-61), one action per way an        *)
(* iteration of its loop can go.  The data source is external: for a fetch *)
(* key it raises, returns an empty price history, or returns a history.    *)

\* the history the data source returns for a fetch key when it has one
History(ticker) ==
    [ data |-> [ symbol |-> ticker, index |-> << 1, 2 >>, Close |-> << Num(1), Num(1) >> ],
      dividends |-> [ index |-> << 2 >>, values |-> << Num(1) >> ] ]

InLoop == pc = "fetching" /\ i < Len(tickers)

\* one call of the data source (lines 49-51) and what came back
Call(ticker, result) == [ ticker |-> ticker, result |-> result ]

\* lines 49-51 raise: nothing in the function or its caller catches, the
\* script run ends and the function's locals are never returned
FetchRaises ==
    /\ InLoop
    /\ fetchLog' = Append(fetchLog, Call(tickers[i + 1], "raised"))
    /\ pc' = "exception"
    /\ stock_data' = << >>
    /\ annual_yields' = << >>
    /\ UNCHANGED << num_stocks, ticker_inputs, include_indices, selected_index,
                    analyze_button, tickers, index_names, i, messages >>

\* lines 53-55 with break in place of continue
SkipEmptyBreak ==
    /\ InLoop
    /\ fetchLog' = Append(fetchLog, Call(tickers[i + 1], "empty"))
    /\ messages' = Append(messages, Warning(tickers[i + 1]))
    /\ i' = Len(tickers)
    /\ UNCHANGED << num_stocks, ticker_inputs, include_indices, selected_index,
                    analyze_button, tickers, index_names, pc, stock_data,
                    annual_yields >>

\* lines 49-55: data.empty, warn and continue
SkipEmpty ==
    /\ InLoop
    /\ fetchLog' = Append(fetchLog, Call(tickers[i + 1], "empty"))
    /\ messages' = Append(messages, Warning(tickers[i + 1]))
    /\ i' = i + 1
    /\ UNCHANGED << num_stocks, ticker_inputs, include_indices, selected_index,
                    analyze_button, tickers, index_names, pc, stock_data,
                    annual_yields >>

\* lines 59-60 keyed by the fetch key in place of the display name
ProcessSymbolByFetchKey ==
    /\ InLoop
    /\ LET h == History(tickers[i + 1])
           adjusted == calculate_adjusted_prices(h.data, h.dividends)
           yield == calculate_annual_dividend_yield(adjusted, h.dividends)
       IN  /\ stock_data' = (tickers[i + 1] :> WithYear(adjusted)) @@ stock_data
           /\ annual_yields' = (tickers[i + 1] :> yield) @@ annual_yields
    /\ fetchLog' = Append(fetchLog, Call(tickers[i + 1], "history"))
    /\ i' = i + 1
    /\ UNCHANGED << num_stocks, ticker_inputs, include_indices, selected_index,
                    analyze_button, tickers, index_names, pc, messages >>

\* lines 49-60: a non-empty history is adjusted and both results are stored
\* under index_names[i]
ProcessSymbol ==
    /\ InLoop
    /\ LET h == History(tickers[i + 1])
           adjusted == calculate_adjusted_prices(h.data, h.dividends)
           yield == calculate_annual_dividend_yield(adjusted, h.dividends)
       IN  /\ stock_data' = (index_names[i + 1] :> WithYear(adjusted)) @@ stock_data
           /\ annual_yields' = (index_names[i + 1] :> yield) @@ annual_yields
    /\ fetchLog' = Append(fetchLog, Call(tickers[i + 1], "history"))
    /\ i' = i + 1
    /\ UNCHANGED << num_stocks, ticker_inputs, include_indices, selected_index,
                    analyze_button, tickers, index_names, pc, messages >>

\* line 61 and lines 121-175: the mappings are returned and rendered
ReturnAndRender ==
    /\ pc = "fetching"
    /\ i = Len(tickers)
    /\ pc' = "rendered"
    /\ UNCHANGED << num_stocks, ticker_inputs, include_indices, selected_index,
                    analyze_button, tickers, index_names, i, stock_data,
                    annual_yields, messages, fetchLog >>

----------------------------------------------------------------------------
(* Specifications *)

\* the first script run: every widget at its default
InitApp ==
    /\ num_stocks = DefaultStocks
    /\ ticker_inputs = [ k \in 1 .. DefaultStocks |-> "" ]
    /\ include_indices = FALSE
    /\ selected_index = IndexNames[1]
    /\ analyze_button = FALSE
    /\ tickers = << >>
    /\ index_names = << >>
    /\ pc = "idle"
    /\ i = 0
    /\ stock_data = << >>
    /\ annual_yields = << >>
    /\ messages = << >>
    /\ fetchLog = << >>

NoCalc ==
    /\ data = PriceFrame("X", [ index |-> << >>, values |-> << >> ])
    /\ dividends = [ index |-> << >>, values |-> << >> ]
    /\ annual_yield = NoYield
    /\ pcCalc = "start"

Init == InitApp /\ NoCalc

Next ==
    \/ \E n \in MinStocks .. MaxStocks : SetNumStocks(n) /\ UNCHANGED calcVars
    \/ \E k \in 1 .. MaxStocks, text \in TickerTexts :
          EnterTicker(k, text) /\ UNCHANGED calcVars
    \/ ToggleIncludeIndices /\ UNCHANGED calcVars
    \/ \E name \in Range(IndexNames) : SelectIndex(name) /\ UNCHANGED calcVars
    \/ ClickAnalyze /\ UNCHANGED calcVars
    \/ FetchRaises /\ UNCHANGED calcVars
    \/ SkipEmpty /\ UNCHANGED calcVars
    \/ ProcessSymbol /\ UNCHANGED calcVars
    \/ ReturnAndRender /\ UNCHANGED calcVars

Spec == Init /\ [][Next]_vars

\* the two calculators applied to every bounded input
InitCalc == InitApp /\ InitCalcVars

SpecCalc == InitCalc /\ [][CalcNext]_vars

----------------------------------------------------------------------------
(* Properties of fetch_and_process_data and the form, under Spec *)

Distinct(seq) == \A a, b \in DOMAIN seq : seq[a] = seq[b] => a = b

\* positions of this run whose fetch gave the result r
Fetched(r) == { j \in DOMAIN fetchLog : fetchLog[j].result = r }

\* C1: with distinct display names, a symbol whose price history came back
\* empty has a warning naming it and no entry in stock_data or
\* annual_yields; the loop goes on after it (every symbol has been fetched
\* when the function returns); and the returned mappings hold exactly one
\* entry per symbol whose history was non-empty.
EmptyHistorySkipped ==
    Distinct(index_names) =>
      /\ pc = "fetching" => Len(fetchLog) = i
      /\ \A j \in Fetched("empty") :
            /\ fetchLog[j].ticker = tickers[j]
            /\ Warning(tickers[j]) \in Range(messages)
            /\ index_names[j] \notin DOMAIN stock_data
            /\ index_names[j] \notin DOMAIN annual_yields
      /\ pc = "rendered" =>
            /\ Len(fetchLog) = Len(tickers)
            /\ DOMAIN stock_data = { index_names[j] : j \in Fetched("history") }
            /\ DOMAIN annual_yields = { index_names[j] : j \in Fetched("history") }
            /\ Cardinality(DOMAIN stock_data) = Cardinality(Fetched("history"))

\* three symbols, the second one empty: two entries and one warning
EmptyHistorySkippedWitness ==
    /\ pc = "rendered"
    /\ Distinct(index_names)
    /\ Len(tickers) = 3
    /\ Fetched("empty") = { 2 }
    /\ Fetched("history") = { 1, 3 }
    /\ Cardinality(DOMAIN stock_data) = 2
    /\ messages = << Warning(tickers[2]) >>

\* C2: once fetch_and_process_data has ended, in whatever way, every symbol
\* of the batch has been processed, every symbol with data is in both
\* mappings and every symbol whose fetch raised is in neither.
ErrorsContained ==
    (pc \in { "rendered", "exception" } /\ Distinct(index_names)) =>
      /\ Len(fetchLog) = Len(tickers)
      /\ \A j \in Fetched("history") :
            index_names[j] \in DOMAIN stock_data \cap DOMAIN annual_yields
      /\ \A j \in Fetched("raised") :
            index_names[j] \notin DOMAIN stock_data \cup DOMAIN annual_yields

\* the non-blank ticker boxes, upper-cased, in box order
NonBlankTickers ==
    SelectSeq([ k \in DOMAIN ticker_inputs |-> Upper(ticker_inputs[k]) ],
              LAMBDA t : t # "")

\* C3: tickers and index_names have equal length and position by position
\* name the same symbol: a stock's ticker text in both, and for a selected
\* index its fetch key in tickers and its display name in index_names.
\* Every symbol with data is stored in both mappings under its display
\* name, and every key of the mappings is the display name of the symbol
\* the stored frame was fetched for.
KeyedByDisplayName ==
    /\ Len(tickers) = Len(index_names)
    /\ Len(NonBlankTickers) <= MaxStocks
    /\ tickers = NonBlankTickers \o
                   (IF include_indices THEN << index_options[selected_index] >> ELSE << >>)
    /\ index_names = NonBlankTickers \o
                   (IF include_indices THEN << selected_index >> ELSE << >>)
    /\ pc \in { "fetching", "rendered" } =>
          /\ \A j \in Fetched("history") :
                index_names[j] \in DOMAIN stock_data \cap DOMAIN annual_yields
          /\ DOMAIN annual_yields = DOMAIN stock_data
          /\ \A key \in DOMAIN stock_data :
                \E j \in Fetched("history") :
                   /\ index_names[j] = key
                   /\ stock_data[key].symbol = tickers[j]

\* a blank box before a stock and a selected index: the index is stored
\* under "S&P 500", nothing under "^GSPC"
KeyedByDisplayNameWitness ==
    /\ pc = "rendered"
    /\ ticker_inputs[1] = ""
    /\ index_names = << "AAPL", "S&P 500" >>
    /\ tickers = << "AAPL", "^GSPC" >>
    /\ DOMAIN stock_data = { "AAPL", "S&P 500" }
    /\ stock_data["S&P 500"].symbol = "^GSPC"

\* C8: in a run triggered by Analyze with an empty ticker list the error
\* message is shown, fetch_and_process_data is not entered and the data
\* source is not called.
EmptyListNoFetch ==
    (analyze_button /\ tickers = << >>) =>
      /\ pc = "user_error"
      /\ messages = << ErrorMessage >>
      /\ fetchLog = << >>

EmptyListNoFetchWitness ==
    /\ analyze_button
    /\ tickers = << >>
    /\ pc = "user_error"
    /\ num_stocks = 3

----------------------------------------------------------------------------
(* Properties of the calculators, under SpecCalc *)

Adjusted == pcCalc \in { "adjusted", "done" }

\* C4: 'Shares Held' is 1.0 on the first date and never decreases from one
\* row to the next (dividend amounts are >= 0).
SharesHeldNonDecreasing ==
    Adjusted =>
      /\ data.SharesHeld[1] = One
      /\ \A k \in 2 .. Len(data.index) :
            FLeq(data.SharesHeld[k - 1], data.SharesHeld[k])

\* shares bought on two later dates
SharesHeldNonDecreasingWitness ==
    /\ Adjusted
    /\ Len(data.index) = 3
    /\ data.SharesHeld[2] # One
    /\ data.SharesHeld[3] # data.SharesHeld[2]
    /\ IsFinite(data.SharesHeld[3])

\* C5: when the first close is not 0, each normalized track is exactly 1.0
\* on the first date, whatever the dividends.
NormalizedStartAtOne ==
    (Adjusted /\ data.Close[1] # Zero) =>
      /\ data.NormalizedRegularPrice[1] = One
      /\ data.NormalizedDividendsPaid[1] = One
      /\ data.NormalizedDividendsReinvested[1] = One

\* a dividend paid on the first date, and later rows that differ
NormalizedStartAtOneWitness ==
    /\ Adjusted
    /\ data.Close[1] # Zero
    /\ data.Dividends[1] # Zero
    /\ Len(data.index) >= 2
    /\ data.NormalizedDividendsPaid[2] # One

AllDividendsZero == \A k \in DOMAIN dividends.values : dividends.values[k] = Zero

\* C7: when every dividend amount is 0, or there is no dividend at all,
\* 'Dividends Paid' and 'Dividends Reinvested' equal 'Regular Price' on
\* every date, 'Shares Held' is 1.0 on every date and the three normalized
\* tracks hold the same values.
ZeroDividendsTracksCoincide ==
    (Adjusted /\ AllDividendsZero) =>
      /\ data.DividendsPaid = data.RegularPrice
      /\ data.DividendsReinvested = data.RegularPrice
      /\ \A k \in DOMAIN data.index : data.SharesHeld[k] = One
      /\ data.NormalizedDividendsPaid = data.NormalizedRegularPrice
      /\ data.NormalizedDividendsReinvested = data.NormalizedRegularPrice

\* zero-amount dividend records on price dates, prices that move
ZeroDividendsTracksCoincideWitness ==
    /\ Adjusted
    /\ AllDividendsZero
    /\ Len(dividends.index) >= 2
    /\ Len(data.index) >= 2
    /\ data.NormalizedRegularPrice[2] = Num(2)

\* the dividend series has a payment dated d
PaidOn(d) == \E k \in DOMAIN dividends.index : dividends.index[k] = d

\* the amount paid on date d
AmountOn(d) == dividends.values[CHOOSE k \in DOMAIN dividends.index : dividends.index[k] = d]

\* C10: aligning the dividends gives a series over exactly the price dates
\* whose value on each date is the dividend paid that date, 0 when none
\* was; dividend dates that are not price dates do not appear; and every
\* derived column has the length of the price series.
AlignmentTotal ==
    LET aligned == AlignDividends(dividends, data.index)
    IN  /\ aligned.index = data.index
        /\ Len(aligned.values) = Len(data.index)
        /\ \A k \in DOMAIN data.index :
              aligned.values[k] =
                 IF PaidOn(data.index[k]) THEN AmountOn(data.index[k]) ELSE Zero
        /\ Adjusted =>
              /\ data.Dividends = aligned.values
              /\ \A col \in { data.RegularPrice, data.CumulativeDividends,
                              data.DividendsPaid, data.SharesHeld,
                              data.DividendsReinvested, data.NormalizedRegularPrice,
                              data.NormalizedDividendsPaid,
                              data.NormalizedDividendsReinvested } :
                    Len(col) = Len(data.index)

\* a dividend on a date without a price, one on a later price date, and a
\* price date without a dividend
AlignmentTotalWitness ==
    /\ Adjusted
    /\ \E d \in Range(dividends.index) : d \notin Range(data.index)
    /\ \E k \in DOMAIN data.index : k >= 2 /\ data.Dividends[k] # Zero
    /\ \E k \in DOMAIN data.index : ~PaidOn(data.index[k])

\* C6: every year that has a price observation and no dividend payment has
\* the annual yield 0.0, and a year without price data has no entry
\* (stated for closes that are all non-zero, so that every yearly average
\* price is a non-zero divisor).
YieldZeroWithoutDividends ==
    (pcCalc = "done" /\ \A k \in DOMAIN data.Close : data.Close[k] # Zero) =>
      /\ \A y \in Years(data.index) :
            y \notin Years(dividends.index) =>
               y \in DOMAIN annual_yield /\ annual_yield[y] = Zero
      /\ DOMAIN annual_yield \subseteq Years(data.index)

\* row k >= 2 has close 0 and dividend cash > 0
ZeroPriceWithCash ==
    \E k \in 2 .. Len(data.index) :
       /\ data.Close[k] = Zero
       /\ FGt0(FMul(data.Dividends[k], data.SharesHeld[k - 1]))

\* C9: a computation that meets a close of 0 with dividend cash > 0 fails;
\* it does not complete, so no completed frame has such a row or holds a
\* 'Shares Held' or 'Dividends Reinvested' value that is not finite.
ZeroPriceFails ==
    Adjusted =>
      /\ ~ZeroPriceWithCash
      /\ \A k \in DOMAIN data.index :
            IsFinite(data.SharesHeld[k]) /\ IsFinite(data.DividendsReinvested[k])

============================================================================
